---- MODULE Spec2Model ----
(***************************************************************************)
(* Model of the YouTube downloader API (src/main.py): the URL validator    *)
(* validate_youtube_url, the extraction invoker extract_download_link and  *)
(* the POST /download handler download_endpoint.                           *)
(*                                                                         *)
(* Strings that the code inspects character by character (the url, the     *)
(* mode) are sequences of one-character strings, so that strip(), lower()  *)
(* and re.search() are computed as Python computes them.  Strings the code *)
(* only passes along (exception messages, titles, direct urls returned by  *)
(* yt_dlp) are TLA+ strings.                                               *)
(***************************************************************************)
EXTENDS Integers, Sequences, FiniteSets, TLC

VARIABLES
    pc,        \* position of the request being handled by download_endpoint
    req_url,   \* request.url, as received
    req_mode,  \* request.mode, as received
    url,       \* local `url` of extract_download_link
    mode,      \* parameter `mode` of extract_download_link (already lower-cased)
    checked,   \* checks of extract_download_link passed so far, in order
    calls,     \* arguments of every ydl.extract_info call of this request
    info,      \* value bound to `info` (line 124 / line 127)
    resp,      \* HTTP response of the request
    v_in,      \* argument of a direct validate_youtube_url call
    v_out      \* its outcome

vars == <<pc, req_url, req_mode, url, mode, checked, calls, info, resp, v_in, v_out>>

\* ------------------------------------------------------------------------
\* Bounds of the model
\* ------------------------------------------------------------------------

\* number of (marker, tail) parts a generated url is built from
MaxParts == 2
\* longest "entries" list the extraction collaborator returns
MaxEntries == 2

\* ------------------------------------------------------------------------
\* Characters and Python string helpers
\* ------------------------------------------------------------------------

Upper == <<"A", "B", "C", "D", "E", "F", "G", "H", "I", "J", "K", "L", "M",
           "N", "O", "P", "Q", "R", "S", "T", "U", "V", "W", "X", "Y", "Z">>
Lower == <<"a", "b", "c", "d", "e", "f", "g", "h", "i", "j", "k", "l", "m",
           "n", "o", "p", "q", "r", "s", "t", "u", "v", "w", "x", "y", "z">>
Digits == {"0", "1", "2", "3", "4", "5", "6", "7", "8", "9"}

\* the character class [A-Za-z0-9_-] of the patterns
IdChars == {Upper[i] : i \in 1..26} \cup {Lower[i] : i \in 1..26} \cup Digits \cup {"_", "-"}

\* what str.strip() removes
Whitespace == {" ", "\t", "\n", "\r"}

\* str.lstrip() and str.rstrip()
RECURSIVE LStrip(_)
LStrip(s) == IF s # <<>> /\ Head(s) \in Whitespace THEN LStrip(Tail(s)) ELSE s
RECURSIVE RStrip(_)
RStrip(s) ==
    IF s # <<>> /\ s[Len(s)] \in Whitespace THEN RStrip(SubSeq(s, 1, Len(s) - 1)) ELSE s

\* str.strip(): drop leading and trailing whitespace
Strip(s) == RStrip(LStrip(s))

\* str.lower() on one character
LowerChar(c) ==
    IF \E i \in 1..26 : Upper[i] = c
    THEN Lower[CHOOSE i \in 1..26 : Upper[i] = c]
    ELSE c

\* str.lower()
str_lower(s) == [i \in 1..Len(s) |-> LowerChar(s[i])]

\* ------------------------------------------------------------------------
\* re.search for the shapes of pattern the code uses
\* ------------------------------------------------------------------------

\* the literal `lit` occurs in s at position i
LitAt(s, i, lit) ==
    /\ i + Len(lit) - 1 <= Len(s)
    /\ \A k \in 1..Len(lit) : s[i + k - 1] = lit[k]

\* number of consecutive characters of [A-Za-z0-9_-] in s from position i on
RECURSIVE IdRun(_, _)
IdRun(s, i) == IF i <= Len(s) /\ s[i] \in IdChars THEN 1 + IdRun(s, i + 1) ELSE 0

\* at least n characters of [A-Za-z0-9_-] in s from position i on
IdRunAtLeast(s, i, n) ==
    /\ i + n - 1 <= Len(s)
    /\ \A k \in 0..(n - 1) : s[i + k] \in IdChars

NoMatch == [found |-> FALSE, group |-> <<>>]

\* the scan of re.search: the first position from i on where lit and then
\* at least n characters of [A-Za-z0-9_-] stand, 0 when there is none
RECURSIVE Scan(_, _, _, _)
Scan(lit, n, s, i) ==
    IF i > Len(s) THEN 0
    ELSE IF LitAt(s, i, lit) /\ IdRunAtLeast(s, i + Len(lit), n) THEN i
    ELSE Scan(lit, n, s, i + 1)

\* the scan backwards from i: the last position where the shape stands
RECURSIVE ScanBack(_, _, _, _)
ScanBack(lit, n, s, i) ==
    IF i < 1 THEN 0
    ELSE IF LitAt(s, i, lit) /\ IdRunAtLeast(s, i + Len(lit), n) THEN i
    ELSE ScanBack(lit, n, s, i - 1)

\* variant of SearchIdN: the rightmost match instead of the leftmost
SearchIdN_Rightmost(lit, n, s) ==
    LET i == ScanBack(lit, n, s, Len(s))
    IN  IF i = 0 THEN NoMatch
        ELSE [found |-> TRUE, group |-> SubSeq(s, i + Len(lit), i + Len(lit) + n - 1)]

\* re.search(r"(?:<lit>)([A-Za-z0-9_-]{n})", s): leftmost match, group 1
SearchIdN(lit, n, s) ==
    LET i == Scan(lit, n, s, 1)
    IN  IF i = 0 THEN NoMatch
        ELSE [found |-> TRUE, group |-> SubSeq(s, i + Len(lit), i + Len(lit) + n - 1)]

\* variant of SearchIdPlus: the lazy quantifier +?, group 1 is one character
SearchIdPlus_Lazy(lit, s) ==
    LET i == Scan(lit, 1, s, 1)
    IN  IF i = 0 THEN NoMatch
        ELSE [found |-> TRUE, group |-> SubSeq(s, i + Len(lit), i + Len(lit))]

\* re.search(r"(?:<lit>)([A-Za-z0-9_-]+)", s): leftmost match, greedy group 1
SearchIdPlus(lit, s) ==
    LET i == Scan(lit, 1, s, 1)
    IN  IF i = 0 THEN NoMatch
        ELSE [found |-> TRUE,
              group |-> SubSeq(s, i + Len(lit), i + Len(lit) + IdRun(s, i + Len(lit)) - 1)]

\* re.search(r"<lit>", s) is not None
SearchLit(lit, s) == \E i \in 1..Len(s) : LitAt(s, i, lit)

\* ------------------------------------------------------------------------
\* validate_youtube_url
\* ------------------------------------------------------------------------

HostLongLit == <<"y", "o", "u", "t", "u", "b", "e", ".", "c", "o", "m">>
HostShortLit == <<"y", "o", "u", "t", "u", ".", "b", "e">>
WatchLit == <<"y", "o", "u", "t", "u", "b", "e", ".", "c", "o", "m", "/",
              "w", "a", "t", "c", "h", "?", "v", "=">>
ShortLit == <<"y", "o", "u", "t", "u", ".", "b", "e", "/">>
ShortsLit == <<"y", "o", "u", "t", "u", "b", "e", ".", "c", "o", "m", "/",
               "s", "h", "o", "r", "t", "s", "/">>
PlaylistLit == <<"y", "o", "u", "t", "u", "b", "e", ".", "c", "o", "m", "/",
                 "p", "l", "a", "y", "l", "i", "s", "t", "?", "l", "i", "s", "t", "=">>
CleanVideoPrefix == <<"h", "t", "t", "p", "s", ":", "/", "/", "w", "w", "w", ".",
                      "y", "o", "u", "t", "u", "b", "e", ".", "c", "o", "m", "/",
                      "w", "a", "t", "c", "h", "?", "v", "=">>
CleanPlaylistPrefix == <<"h", "t", "t", "p", "s", ":", "/", "/", "w", "w", "w", ".",
                         "y", "o", "u", "t", "u", "b", "e", ".", "c", "o", "m", "/",
                         "p", "l", "a", "y", "l", "i", "s", "t", "?", "l", "i", "s", "t", "=">>

\* the {11} of the three video patterns
IdLen == 11

ERR_EMPTY == "URL must be a non-empty string"
ERR_SOURCE == "Not a valid YouTube URL"
ERR_FORMAT == "Invalid YouTube URL format"
ERR_MODE == "Mode must be 'audio' or 'video'"
ERR_NO_URL == "Could not extract download URL"
ERR_INDEX == "list index out of range"

\* lit stands at position i of s, a "." of lit standing for any character
LitAtAnyDot(s, i, lit) ==
    /\ i + Len(lit) - 1 <= Len(s)
    /\ \A k \in 1..Len(lit) : lit[k] = "." \/ s[i + k - 1] = lit[k]

\* variant of HostSearch: the dots of the pattern left unescaped
HostSearch_UnescapedDot(s) ==
    \E i \in 1..Len(s) : LitAtAnyDot(s, i, HostLongLit) \/ LitAtAnyDot(s, i, HostShortLit)

\* re.search(r"(youtube\.com|youtu\.be)", url)
HostSearch(s) == SearchLit(HostLongLit, s) \/ SearchLit(HostShortLit, s)

\* variant of video_patterns: the youtu.be pattern listed first
video_patterns_ShortFirst ==
    << [name |-> "youtu.be", lit |-> ShortLit],
       [name |-> "watch",    lit |-> WatchLit],
       [name |-> "shorts",   lit |-> ShortsLit] >>

\* the list video_patterns, in the order the loop tries it
video_patterns ==
    << [name |-> "watch",    lit |-> WatchLit],
       [name |-> "youtu.be", lit |-> ShortLit],
       [name |-> "shorts",   lit |-> ShortsLit] >>

\* re.search(pattern, url) for the k-th video pattern
VideoSearch(k, s) == SearchIdN(video_patterns[k].lit, IdLen, s)

\* re.search(playlist_pattern, url)
PlaylistSearch(s) == SearchIdPlus(PlaylistLit, s)

\* names of the first n video patterns, in order
PatternNames(n) == [k \in 1..n |-> video_patterns[k].name]

VRaise(msg, tried) ==
    [ok |-> FALSE, type |-> "", id |-> <<>>, clean_url |-> <<>>, err |-> msg, tried |-> tried]

VReturn(type, id, clean, tried) ==
    [ok |-> TRUE, type |-> type, id |-> id, clean_url |-> clean, err |-> "", tried |-> tried]

\* validate_youtube_url(url).  The argument is [isStr, s]: a str with
\* characters s, or a value that is not a str.  The outcome is the returned
\* dict or the ValueError raised, with `tried`, the patterns searched before
\* the function left, in order.
\* lines 76-88: the playlist pattern, tried after every video pattern failed
ValidatePlaylist(s) ==
    LET m     == PlaylistSearch(s)
        tried == <<"host">> \o PatternNames(Len(video_patterns)) \o <<"playlist">>
    IN  IF m.found
        THEN VReturn("playlist", m.group, CleanPlaylistPrefix \o m.group, tried)
        ELSE VRaise(ERR_FORMAT, tried)

\* lines 65-74: the loop over video_patterns from the k-th pattern on
RECURSIVE ValidateVideo(_, _)
ValidateVideo(s, k) ==
    IF k > Len(video_patterns) THEN ValidatePlaylist(s)
    ELSE LET m == VideoSearch(k, s)
         IN  IF m.found
             THEN VReturn("video", m.group, CleanVideoPrefix \o m.group,
                          <<"host">> \o PatternNames(k))
             ELSE ValidateVideo(s, k + 1)

\* lines 54-88, on the stripped url
ValidateStripped(s) ==
    IF ~HostSearch(s) THEN VRaise(ERR_SOURCE, <<"host">>) ELSE ValidateVideo(s, 1)

validate_youtube_url(x) ==
    IF ~x.isStr THEN VRaise(ERR_EMPTY, <<>>)
    ELSE LET s == Strip(x.s)
         IN  IF s = <<>> THEN VRaise(ERR_EMPTY, <<>>) ELSE ValidateStripped(s)

\* ------------------------------------------------------------------------
\* extract_download_link and download_endpoint
\* ------------------------------------------------------------------------

audio == <<"a", "u", "d", "i", "o">>
video == <<"v", "i", "d", "e", "o">>

\* ydl_opts["format"] for the two accepted modes
Format(m) == IF m = audio THEN "bestaudio/best" ELSE "best[ext=mp4]/best"

\* an optional key of the dict yt_dlp returns
Absent == [present |-> FALSE, val |-> ""]
Some(v) == [present |-> TRUE, val |-> v]

\* dict.get(key): None when the key is absent (None and "" are both falsy)
Get(opt) == IF opt.present THEN opt.val ELSE ""
\* variant of GetDefault: the default dropped, as plain dict.get(key)
GetDefault_NoDefault(opt, default) == IF opt.present THEN opt.val ELSE ""

\* dict.get(key, default)
GetDefault(opt, default) == IF opt.present THEN opt.val ELSE default

NoResp == [status |-> 0, detail |-> "", title |-> "", download_url |-> ""]
NoInfo == [kind |-> "unset"]
NotCalled == [ok |-> FALSE, type |-> "", id |-> <<>>, clean_url |-> <<>>,
              err |-> "not called", tried |-> <<>>]

\* line 142-144: except Exception as e: raise RuntimeError(str(e))
ExtractExcept(e) == [type |-> "RuntimeError", msg |-> e.msg]

\* variant of EndpointExcept: every caught exception answered 400
EndpointExcept_All400(e) ==
    [status |-> 400, detail |-> e.msg, title |-> "", download_url |-> ""]

\* lines 165-177: ValueError -> 400, RuntimeError -> 500, detail=str(e); any
\* other exception leaves the handler and the framework answers 500
EndpointExcept(e) ==
    IF e.type = "ValueError"
    THEN [status |-> 400, detail |-> e.msg, title |-> "", download_url |-> ""]
    ELSE IF e.type = "RuntimeError"
    THEN [status |-> 500, detail |-> e.msg, title |-> "", download_url |-> ""]
    ELSE [status |-> 500, detail |-> "Internal Server Error", title |-> "", download_url |-> ""]

\* lines 159-163: the success body
EndpointReturn(result) ==
    [status |-> 200, detail |-> "success", title |-> result.title,
     download_url |-> result.download_url]

\* an exception raised inside the try block of extract_download_link, as
\* the caller of POST /download sees it
Raised(type, msg) == EndpointExcept(ExtractExcept([type |-> type, msg |-> msg]))

\* variant of Picked: the last entry instead of the first
Picked_LastEntry(r) ==
    IF r.has_entries THEN r.entries[Len(r.entries)] ELSE [url |-> r.url, title |-> r.title]

\* lines 126-127: info = info["entries"][0] when the dict has an entries key
Picked(r) == IF r.has_entries THEN r.entries[1] ELSE [url |-> r.url, title |-> r.title]

\* lines 126-140 on the value extract_info returned: the response
Unwrapped(r) ==
    IF r.kind = "none"
    THEN [raised |-> TRUE, type |-> "TypeError",
          msg |-> "argument of type 'NoneType' is not iterable", info |-> NoInfo]
    ELSE IF r.has_entries /\ r.entries = <<>>
    THEN [raised |-> TRUE, type |-> "IndexError", msg |-> ERR_INDEX, info |-> NoInfo]
    ELSE
      LET i == Picked(r)
          download_url == Get(i.url)
          title == GetDefault(i.title, "video")
      IN  IF download_url = ""
          THEN [raised |-> TRUE, type |-> "RuntimeError", msg |-> ERR_NO_URL, info |-> i]
          ELSE [raised |-> FALSE, type |-> "", msg |-> "", info |-> i,
                title |-> title, download_url |-> download_url]

\* ------------------------------------------------------------------------
\* Inputs
\* ------------------------------------------------------------------------

HttpsWww == <<"h", "t", "t", "p", "s", ":", "/", "/", "w", "w", "w", ".">>
MkWatch == HttpsWww \o WatchLit
MkPlaylist == HttpsWww \o PlaylistLit
MkShort == <<"h", "t", "t", "p", "s", ":", "/", "/", "y", "o", "u", "t", "u", ".", "b", "e", "/">>
MkNoDot == <<"y", "o", "u", "t", "u", "b", "e", "X", "c", "o", "m", "/",
             "w", "a", "t", "c", "h", "?", "v", "=">>
IdA == <<"d", "Q", "w", "4", "w", "9", "W", "g", "X", "c", "Q">>
IdB == <<"a", "_", "B", "-", "c", "0", "D", "1", "e", "2", "F">>
TailShort == <<"P", "L", "x", "7", "&", "t", "=", "1">>

Markers == {<<>>, WatchLit, MkShort, ShortsLit, MkPlaylist, MkNoDot}
Tails == {<<>>, IdA, IdB, TailShort, <<" ">>}
Parts == {m \o t : m \in Markers, t \in Tails}

\* the strings built from at most n parts
RECURSIVE UrlsUpTo(_)
UrlsUpTo(n) ==
    IF n = 0 THEN {<<>>}
    ELSE LET shorter == UrlsUpTo(n - 1)
         IN  shorter \cup {u \o p : u \in shorter, p \in Parts}

NotAStr == [isStr |-> FALSE, s |-> <<>>]
ValidatorInputs == {[isStr |-> TRUE, s |-> u] : u \in UrlsUpTo(MaxParts)} \cup {NotAStr}

\* request bodies: pydantic admits only str for url and mode
ReqUrls ==
    { <<>>, <<" ">>, IdA, MkNoDot \o IdA,
      WatchLit \o TailShort,
      MkShort \o IdA, ShortsLit \o IdB,
      <<" ">> \o MkWatch \o IdA \o TailShort,
      MkPlaylist \o TailShort,
      MkPlaylist \o IdB \o WatchLit \o IdA }
ReqModes == { audio, video, <<"A", "u", "d", "i", "O">>, <<"m", "p", "3">>, <<>> }

UrlVals == {Absent, Some(""), Some("u1"), Some("u2")}
TitleVals == {Absent, Some("t1")}
Entries == [url : UrlVals, title : TitleVals]

RECURSIVE SeqsUpTo(_, _)
SeqsUpTo(S, n) ==
    IF n = 0 THEN {<<>>}
    ELSE LET shorter == SeqsUpTo(S, n - 1)
         IN  shorter \cup {Append(q, e) : q \in shorter, e \in S}

\* what ydl.extract_info can do: raise, return None, return a dict with
\* optional keys url, title and entries
Outcomes ==
    {[kind |-> "raise", msg |-> "ERROR: Video unavailable"], [kind |-> "none"]}
    \cup {[kind |-> "dict", url |-> e.url, title |-> e.title,
           has_entries |-> FALSE, entries |-> <<>>] : e \in Entries}
    \cup {[kind |-> "dict", url |-> e.url, title |-> e.title,
           has_entries |-> TRUE, entries |-> es] :
             e \in Entries, es \in SeqsUpTo(Entries, MaxEntries)}

\* ------------------------------------------------------------------------
\* State machine
\* ------------------------------------------------------------------------

Init ==
    /\ pc = "idle"
    /\ req_url = <<>>
    /\ req_mode = <<>>
    /\ url = <<>>
    /\ mode = <<>>
    /\ checked = <<>>
    /\ calls = <<>>
    /\ info = NoInfo
    /\ resp = NoResp
    /\ v_in = NotAStr
    /\ v_out = NotCalled

\* POST /download arrives; line 154-157 call extract_download_link with
\* request.url and request.mode.lower()
Receive ==
    /\ pc = "idle"
    /\ \E u \in ReqUrls, m \in ReqModes :
          /\ req_url' = u
          /\ req_mode' = m
          /\ url' = u
          /\ mode' = str_lower(m)
    /\ pc' = "validate"
    /\ UNCHANGED <<checked, calls, info, resp, v_in, v_out>>

\* variant of ValidateUrl: line 97 left out, url stays the raw request url
ValidateUrl_KeepRaw ==
    /\ pc = "validate"
    /\ LET v == validate_youtube_url([isStr |-> TRUE, s |-> url])
       IN  IF v.ok
           THEN /\ checked' = Append(checked, "url")
                /\ pc' = "mode"
                /\ UNCHANGED <<url, resp>>
           ELSE /\ resp' = Raised("ValueError", v.err)
                /\ pc' = "done"
                /\ UNCHANGED <<url, checked>>
    /\ UNCHANGED <<req_url, req_mode, mode, calls, info, v_in, v_out>>

\* lines 96-97
ValidateUrl ==
    /\ pc = "validate"
    /\ LET v == validate_youtube_url([isStr |-> TRUE, s |-> url])
       IN  IF v.ok
           THEN /\ url' = v.clean_url
                /\ checked' = Append(checked, "url")
                /\ pc' = "mode"
                /\ resp' = resp
           ELSE /\ resp' = Raised("ValueError", v.err)
                /\ pc' = "done"
                /\ UNCHANGED <<url, checked>>
    /\ UNCHANGED <<req_url, req_mode, mode, calls, info, v_in, v_out>>

\* lines 101-120
CheckMode ==
    /\ pc = "mode"
    /\ IF mode = audio \/ mode = video
       THEN /\ checked' = Append(checked, "mode")
            /\ pc' = "call"
            /\ resp' = resp
       ELSE /\ resp' = Raised("ValueError", ERR_MODE)
            /\ pc' = "done"
            /\ UNCHANGED checked
    /\ UNCHANGED <<req_url, req_mode, url, mode, calls, info, v_in, v_out>>

\* lines 122-124: ydl.extract_info(url, download=False) returns or raises
ExtractInfo ==
    /\ pc = "call"
    /\ \E r \in Outcomes :
          /\ calls' = Append(calls, [url |-> url, format |-> Format(mode), result |-> r])
          /\ IF r.kind = "raise"
             THEN /\ resp' = Raised("DownloadError", r.msg)
                  /\ pc' = "done"
             ELSE /\ pc' = "unwrap"
                  /\ resp' = resp
    /\ UNCHANGED <<req_url, req_mode, url, mode, checked, info, v_in, v_out>>

\* lines 126-140 and the endpoint's return, lines 159-163
Unwrap ==
    /\ pc = "unwrap"
    /\ LET w == Unwrapped(calls[Len(calls)].result)
       IN  /\ info' = w.info
           /\ resp' = IF w.raised THEN Raised(w.type, w.msg)
                      ELSE EndpointReturn([title |-> w.title, download_url |-> w.download_url])
    /\ pc' = "done"
    /\ UNCHANGED <<req_url, req_mode, url, mode, checked, calls, v_in, v_out>>

Next ==
    \/ Receive
    \/ ValidateUrl
    \/ CheckMode
    \/ ExtractInfo
    \/ Unwrap

Spec == Init /\ [][Next]_vars

\* --- validate_youtube_url called directly on one argument ---------------

InitV ==
    /\ pc = "idle"
    /\ req_url = <<>>
    /\ req_mode = <<>>
    /\ url = <<>>
    /\ mode = <<>>
    /\ checked = <<>>
    /\ calls = <<>>
    /\ info = NoInfo
    /\ resp = NoResp
    /\ v_in \in ValidatorInputs
    /\ v_out = NotCalled

CallValidate ==
    /\ pc = "idle"
    /\ v_out' = validate_youtube_url(v_in)
    /\ pc' = "returned"
    /\ UNCHANGED <<req_url, req_mode, url, mode, checked, calls, info, resp, v_in>>

NextV == CallValidate

SpecV == InitV /\ [][NextV]_vars

\* ------------------------------------------------------------------------
\* Vocabulary of the properties, stated on the raw strings
\* ------------------------------------------------------------------------

\* s contains lit as a substring
Contains(s, lit) ==
    \E i \in 1..(Len(s) - Len(lit) + 1) : \A k \in 1..Len(lit) : s[i + k - 1] = lit[k]

\* s begins with p
StartsWith(s, p) == Len(p) <= Len(s) /\ SubSeq(s, 1, Len(p)) = p

\* lit followed by n characters of the ID alphabet stands at position i of s
ShapeAt(s, i, lit, n) ==
    /\ i + Len(lit) + n - 1 <= Len(s)
    /\ \A k \in 1..Len(lit) : s[i + k - 1] = lit[k]
    /\ \A k \in (i + Len(lit))..(i + Len(lit) + n - 1) : s[k] \in IdChars

HasShape(s, lit, n) == \E i \in 1..Len(s) : ShapeAt(s, i, lit, n)

\* the n characters after the leftmost occurrence of the shape
ShapeId(s, lit, n) ==
    LET i == CHOOSE h \in 1..Len(s) :
                 ShapeAt(s, h, lit, n) /\ \A g \in 1..(h - 1) : ~ShapeAt(s, g, lit, n)
    IN  SubSeq(s, i + Len(lit), i + Len(lit) + n - 1)

\* position of the leftmost occurrence of the shape
ShapePos(s, lit, n) ==
    CHOOSE h \in 1..Len(s) : ShapeAt(s, h, lit, n) /\ \A g \in 1..(h - 1) : ~ShapeAt(s, g, lit, n)

\* the video shapes in the order watch, youtu.be, shorts
ShapeLits == <<WatchLit, ShortLit, ShortsLit>>
ShapeNames == <<"watch", "youtu.be", "shorts">>

HasVideoShape(s) == \E k \in 1..3 : HasShape(s, ShapeLits[k], 11)
HasPlaylistShape(s) == HasShape(s, PlaylistLit, 1)
HasHostMarker(s) == Contains(s, HostLongLit) \/ Contains(s, HostShortLit)
Blank(s) == \A i \in 1..Len(s) : s[i] \in Whitespace

\* the longest prefix of s over the ID alphabet
RECURSIVE IdPrefix(_)
IdPrefix(s) ==
    IF s # <<>> /\ Head(s) \in IdChars THEN <<Head(s)>> \o IdPrefix(Tail(s)) ELSE <<>>

\* the request being handled, as the validator and the mode check see it
ReqValidation == validate_youtube_url([isStr |-> TRUE, s |-> req_url])
ReqUrlValid == ~Blank(req_url) /\ HasHostMarker(req_url)
                 /\ (HasVideoShape(req_url) \/ HasPlaylistShape(req_url))
ReqModeValid == str_lower(req_mode) \in {audio, video}
Done == pc = "done"
Returned == pc = "returned"

\* the record the claims call "the metadata" when the collaborator returned r
UsedRecord(r) == IF r.has_entries THEN r.entries[1] ELSE [url |-> r.url, title |-> r.title]

\* what extract_info did in the request being handled
Called == calls # <<>>
LastResult == calls[Len(calls)].result
NonEmpty(opt) == opt.present /\ opt.val # ""

\* ------------------------------------------------------------------------
\* Properties of POST /download (specification Spec)
\* ------------------------------------------------------------------------

\* C1: a request whose url fails validation (blank, no host marker, or no
\* ID-bearing shape) is answered 400 with the validator's message, whatever
\* the mode.
C1_InvalidUrlIs400 ==
    (Done /\ ~ReqUrlValid) => (resp.status = 400 /\ resp.detail = ReqValidation.err)

\* C2: a request whose lower-cased mode is neither "audio" nor "video" is
\* answered 400 and extract_info is never invoked for it.
C2_BadModeIs400NoCall ==
    (Done /\ ~ReqModeValid) => (resp.status = 400 /\ ~Called)

\* C3 as stated: valid url and mode, and the collaborator raises or the
\* metadata it returns has a missing or empty url: the answer is 500 with a
\* message.
C3_Original ==
    (Done /\ Called
       /\ (\/ LastResult.kind = "raise"
           \/ (LastResult.kind = "dict" /\ ~NonEmpty(LastResult.url)))
       /\ ReqUrlValid /\ ReqModeValid)
    => (resp.status = 500 /\ resp.detail # "")

\* the record the response is built from has no usable url, or there is none
NoUsableUrl(r) ==
    /\ r.kind = "dict"
    /\ IF r.has_entries
       THEN r.entries = <<>> \/ ~NonEmpty(r.entries[1].url)
       ELSE ~NonEmpty(r.url)

\* C3 amended: valid url and mode, and the collaborator raises, or the record
\* the response is built from (the returned metadata when it has no entries
\* key, its first entry otherwise) has a missing or empty url, or the entries
\* list is empty: the answer is 500 with a message, never 200 or 400.
C3_ExtractionFailureIs500 ==
    (Done /\ Called
       /\ (LastResult.kind = "raise" \/ NoUsableUrl(LastResult))
       /\ ReqUrlValid /\ ReqModeValid)
    => (resp.status = 500 /\ resp.detail # "" /\ resp.download_url = "")

\* a collaborator exception ends in 500 carrying the exception's message
C3_Witness ==
    /\ Done /\ Called /\ ReqUrlValid /\ ReqModeValid
    /\ LastResult.kind = "raise"
    /\ resp.status = 500 /\ resp.detail = LastResult.msg

\* C4 as stated: valid url and mode, and the returned metadata has a
\* non-empty url: the answer is 200 "success" with that url and the
\* metadata's title, "video" when it has no title key.
C4_Original ==
    (Done /\ Called
       /\ LastResult.kind = "dict" /\ NonEmpty(LastResult.url)
       /\ ReqUrlValid /\ ReqModeValid)
    => /\ resp.status = 200
       /\ resp.detail = "success"
       /\ resp.download_url = LastResult.url.val
       /\ resp.title = IF LastResult.title.present THEN LastResult.title.val ELSE "video"

\* C4 amended: valid url and mode, and the record the response is built from
\* (the returned metadata when it has no entries key, its first entry
\* otherwise) has a non-empty url: the answer is 200 "success" with that
\* record's url and title, "video" when the record has no title key.
C4_SuccessIs200 ==
    (Done /\ Called
       /\ LastResult.kind = "dict" /\ ~NoUsableUrl(LastResult)
       /\ ReqUrlValid /\ ReqModeValid)
    => LET u == UsedRecord(LastResult)
       IN  /\ resp.status = 200
           /\ resp.detail = "success"
           /\ resp.download_url = u.url.val
           /\ resp.title = IF u.title.present THEN u.title.val ELSE "video"

\* a plain result without a title key is answered with the default title
C4_Witness ==
    /\ Done /\ Called /\ ReqUrlValid /\ ReqModeValid
    /\ LastResult.kind = "dict" /\ ~LastResult.has_entries
    /\ LastResult.url = Some("u1") /\ ~LastResult.title.present
    /\ resp.status = 200 /\ resp.download_url = "u1" /\ resp.title = "video"

\* C9: when the returned metadata has an entries key, title and download_url
\* come from the first entry only, never from the top level or a later
\* entry; an empty entries list ends as 500.
C9_FirstEntryOnly ==
    (Done /\ Called /\ LastResult.kind = "dict" /\ LastResult.has_entries)
    => IF LastResult.entries = <<>>
       THEN resp.status = 500
       ELSE LET e == LastResult.entries[1]
            IN  IF NonEmpty(e.url)
                THEN /\ resp.status = 200
                     /\ resp.download_url = e.url.val
                     /\ resp.title = IF e.title.present THEN e.title.val ELSE "video"
                ELSE /\ resp.status = 500
                     /\ resp.download_url = ""
                     /\ resp.title = ""

\* the top level and the second entry carry another url and a title, the
\* first entry has no title: the answer shows the first entry's url and the
\* default title
C9_Witness ==
    /\ Done /\ Called /\ LastResult.kind = "dict" /\ LastResult.has_entries
    /\ Len(LastResult.entries) >= 2
    /\ LastResult.url = Some("u2") /\ LastResult.title = Some("t1")
    /\ LastResult.entries[1] = [url |-> Some("u1"), title |-> Absent]
    /\ LastResult.entries[2] = [url |-> Some("u2"), title |-> Some("t1")]
    /\ resp.status = 200 /\ resp.download_url = "u1" /\ resp.title = "video"

\* C10: extract_info is invoked at most once per request, only after the url
\* check and then the mode check have passed, and with the validator's
\* canonical url; the url is checked before the mode, so a request with an
\* invalid url and an invalid mode reports the url error.
C10_CallOrder ==
    /\ Len(calls) <= 1
    /\ checked \in {<<>>, <<"url">>, <<"url", "mode">>}
    /\ Called => /\ checked = <<"url", "mode">>
                 /\ ReqModeValid
                 /\ calls[1].url = ReqValidation.clean_url
                 /\ \/ /\ StartsWith(calls[1].url, MkWatch)
                       /\ Len(calls[1].url) = Len(MkWatch) + 11
                    \/ StartsWith(calls[1].url, MkPlaylist)
    /\ (Done /\ ~Called) => (resp.status # 200 /\ resp.status # 0)
    /\ (Done /\ ~ReqModeValid /\ ~ReqUrlValid)
         => (resp.detail = ReqValidation.err /\ resp.detail # ERR_MODE /\ checked = <<>>)

\* a finished request whose raw url was not canonical: one call, made with
\* the canonical url
C10_Witness ==
    /\ Done /\ Len(calls) = 1
    /\ calls[1].url # req_url
    /\ calls[1].url = MkWatch \o IdA
    /\ Contains(req_url, TailShort)
    /\ resp.status = 200

\* a request with an invalid url and an invalid mode has been answered
C10_BothInvalidWitness ==
    Done /\ ~ReqUrlValid /\ ~ReqModeValid /\ resp.detail = ERR_SOURCE

\* ------------------------------------------------------------------------
\* Properties of validate_youtube_url (specification SpecV)
\* ------------------------------------------------------------------------

\* C5: failures are classified in a fixed order.  A non-string, empty or
\* whitespace-only argument raises the invalid-input error before any pattern
\* is searched; otherwise a string without host marker raises the
\* invalid-source error; otherwise a string with none of the four shapes
\* raises the format-mismatch error; otherwise the call succeeds.  Every call
\* ends in exactly one of the four.
C5_FailureOrder ==
    Returned =>
      /\ IF ~v_in.isStr \/ Blank(v_in.s)
         THEN ~v_out.ok /\ v_out.err = ERR_EMPTY /\ v_out.tried = <<>>
         ELSE IF ~HasHostMarker(v_in.s)
         THEN ~v_out.ok /\ v_out.err = ERR_SOURCE /\ v_out.tried = <<"host">>
         ELSE IF ~HasVideoShape(v_in.s) /\ ~HasPlaylistShape(v_in.s)
         THEN ~v_out.ok /\ v_out.err = ERR_FORMAT
         ELSE v_out.ok /\ v_out.err = ""
      /\ v_out.ok => v_out.type \in {"video", "playlist"}
      /\ ~v_out.ok => v_out.err \in {ERR_EMPTY, ERR_SOURCE, ERR_FORMAT}

\* a string that looks like a watch url but has no host marker is rejected
\* as invalid source after the host search alone
C5_Witness ==
    /\ Returned /\ v_in.isStr
    /\ StartsWith(v_in.s, MkNoDot \o IdA)
    /\ v_out.err = ERR_SOURCE /\ v_out.tried = <<"host">>

\* the three url forms of C6 for an 11-character id, in pattern order
UrlForms == <<WatchLit, MkShort, ShortsLit>>

\* what C6 expects for the id
VideoResult(id) == [type |-> "video", id |-> id, clean_url |-> MkWatch \o id]
Result(o) == [type |-> o.type, id |-> o.id, clean_url |-> o.clean_url]

\* C6 as stated: the watch url, the youtu.be url and the shorts url of an
\* 11-character id, whatever text follows the id, all validate to kind
\* video, that id and the canonical watch url of that id.
C6_Original ==
    Returned =>
      \A k \in 1..3 : \A id \in {IdA, IdB} :
        (v_in.isStr /\ StartsWith(v_in.s, UrlForms[k] \o id))
          => (v_out.ok /\ Result(v_out) = VideoResult(id))

\* C6 amended: the same, provided the url with its trailing text contains no
\* video shape of an earlier pattern (no watch shape in a youtu.be or shorts
\* url, no youtu.be shape in a shorts url).
C6_SameCanonicalForm ==
    Returned =>
      \A k \in 1..3 : \A id \in {IdA, IdB} :
        (/\ v_in.isStr
         /\ StartsWith(v_in.s, UrlForms[k] \o id)
         /\ \A j \in 1..(k - 1) : ~HasShape(v_in.s, ShapeLits[j], 11))
          => (v_out.ok /\ Result(v_out) = VideoResult(id))

\* a youtu.be url followed by more characters of the ID alphabet and a query
\* parameter yields the id alone
C6_Witness ==
    /\ Returned /\ v_in.isStr
    /\ v_in.s = MkShort \o IdA \o TailShort
    /\ Result(v_out) = VideoResult(IdA)

\* C7: a playlist url https://www.youtube.com/playlist?list=<id> with a
\* non-empty id over the ID alphabet that matches no video shape validates to
\* kind playlist, that id and the canonical playlist url of that id.
C7_Playlist ==
    (/\ Returned
     /\ v_in.isStr
     /\ StartsWith(v_in.s, MkPlaylist)
     /\ IdPrefix(SubSeq(v_in.s, Len(MkPlaylist) + 1, Len(v_in.s))) # <<>>
     /\ ~HasVideoShape(v_in.s))
        => LET id == IdPrefix(SubSeq(v_in.s, Len(MkPlaylist) + 1, Len(v_in.s)))
           IN  /\ v_out.ok
               /\ Result(v_out) = [type |-> "playlist", id |-> id,
                                   clean_url |-> MkPlaylist \o id]

\* a playlist url whose id is longer than one character, with nothing after
C7_Witness ==
    /\ Returned /\ v_in.isStr
    /\ v_in.s = MkPlaylist \o IdB
    /\ v_out.ok /\ v_out.type = "playlist" /\ v_out.id = IdB
    /\ v_out.clean_url = v_in.s

\* the first video pattern, in the order watch, youtu.be, shorts, that s matches
FirstVideoShape(s) ==
    CHOOSE k \in 1..3 :
        HasShape(s, ShapeLits[k], 11) /\ \A j \in 1..(k - 1) : ~HasShape(s, ShapeLits[j], 11)

\* C8, first part: the patterns are tried in the order watch, youtu.be,
\* shorts, playlist, and the first that matches decides: a video shape wins
\* over the playlist shape, and among video shapes the earliest pattern wins,
\* not the earliest position.
C8_FirstMatchWins ==
    (Returned /\ v_in.isStr /\ v_out.ok) =>
      IF HasVideoShape(v_in.s)
      THEN LET k == FirstVideoShape(v_in.s)
           IN  /\ v_out.type = "video"
               /\ v_out.id = ShapeId(v_in.s, ShapeLits[k], 11)
               /\ v_out.tried = <<"host">> \o SubSeq(ShapeNames, 1, k)
      ELSE /\ v_out.type = "playlist"
           /\ v_out.tried = <<"host">> \o ShapeNames \o <<"playlist">>

\* C8, last part: no argument matches both a video shape and the playlist
\* shape.
C8_NeverBoth ==
    (Returned /\ v_in.isStr) => ~(HasVideoShape(v_in.s) /\ HasPlaylistShape(v_in.s))

\* C8 as stated: both parts.
C8_Original == C8_FirstMatchWins /\ C8_NeverBoth

\* a shorts shape stands first in the string and a watch shape after it:
\* the watch id is returned
C8_Witness ==
    /\ Returned /\ v_in.isStr
    /\ v_in.s = ShortsLit \o IdA \o WatchLit \o IdB
    /\ ShapePos(v_in.s, ShortsLit, 11) < ShapePos(v_in.s, WatchLit, 11)
    /\ v_out.type = "video" /\ v_out.id = IdB

====
